---- MODULE Spec2Model ----
(***************************************************************************)
(* Model of the mcp-setup bootstrap CLI (cli.ts, and the package-based     *)
(* variant of the same script): prerequisite gate, repository acquisition  *)
(* (git submodules with per-descriptor clone fallback, direct clone loop), *)
(* .gitignore update, browser install, secret prompt and rendering of      *)
(* .roo/mcp.json from the bundled template.                                *)
(*                                                                         *)
(* Text is a sequence of tokens (strings).  Characters that matter to the  *)
(* code (quote, backslash, dollar, newline, blank, path separators) are    *)
(* always tokens of their own; a placeholder is one token.                 *)
(* Paths on disk are token sequences relative to the project directory.    *)
(* External tools (git, npx, which) are the environment: every call picks  *)
(* its outcome nondeterministically; a failed git command leaves the disk  *)
(* as it was, a successful one creates what it is documented to create.    *)
(***************************************************************************)
EXTENDS Naturals, Sequences, FiniteSets, TLC

(***************************************************************************)
(* Bounds of the model                                                     *)
(***************************************************************************)
\* largest number of required tools a probe run reports absent
MaxAbsent == 2
\* number of runs of the program on the same directory (SpecRerun)
MaxRuns == 2
\* largest number of tokens of a .gitignore drawn for SpecGitignore
MaxContentLen == 3

(***************************************************************************)
(* Program constants                                                       *)
(***************************************************************************)
\* cli.ts:510  input.length < 10
MinKeyLen == 10

\* the value of a file that does not exist
Absent == <<"<absent>">>
NoError == "<none>"

SEP == "/"
NL == "\n"
BSL == "\\"
QUOTE == "\""

\* cli.ts:33-49
REPOS ==
    << [url |-> "git@github.com:AgentDeskAI/browser-tools-mcp.git",
        name |-> "browser-tools-mcp",
        path |-> <<"submodules", SEP, "browser-tools-mcp">>],
       [url |-> "git@github.com:inkr-global/browser-use-mcp.git",
        name |-> "browser-use-mcp",
        path |-> <<"submodules", SEP, "browser-use-mcp">>],
       [url |-> "git@github.com:inkr-global/codebase-mcp.git",
        name |-> "codebase-mcp",
        path |-> <<"submodules", SEP, "codebase-mcp">>] >>

RepoIdx == 1..Len(REPOS)

\* cli.ts:74
prerequisites == <<"node", "npm", "git", "python", "uv", "bun">>

\* cli.ts:476
CHROME_PATH_DETECTION_FAILED == "__CHROME_PATH_DETECTION_FAILED__"

PH_PWD == "__PWD__"
PH_CHROME == "__CHROME_PATH__"
PH_BROWSER_KEY == "__BROWSER_USE_GOOGLE_API_KEY__"
PH_CODEBASE_KEY == "__CODEBASE_GOOGLE_API_KEY__"

(***************************************************************************)
(* Text and path helpers                                                   *)
(***************************************************************************)
Range(s) == {s[i] : i \in 1..Len(s)}

\* concatenation of the sequences ss[lo..hi] (by halves, to keep the evaluation shallow)
RECURSIVE FlattenRange(_, _, _)
FlattenRange(ss, lo, hi) ==
    IF lo > hi THEN <<>>
    ELSE IF lo = hi THEN ss[lo]
    ELSE LET mid == (lo + hi) \div 2
         IN  FlattenRange(ss, lo, mid) \o FlattenRange(ss, mid + 1, hi)

Flatten(ss) == FlattenRange(ss, 1, Len(ss))

\* String.prototype.includes
Includes(text, pat) ==
    \E i \in 1..(Len(text) + 1) :
        /\ i + Len(pat) - 1 <= Len(text)
        /\ SubSeq(text, i, i + Len(pat) - 1) = pat

\* String.prototype.endsWith
EndsWith(text, tok) == Len(text) > 0 /\ text[Len(text)] = tok

\* path.join(base, rel), both relative to the project directory
join(base, rel) == IF base = <<>> THEN rel ELSE base \o <<SEP>> \o rel

\* path.dirname
dirname(p) ==
    LET seps == {i \in 1..Len(p) : p[i] = SEP}
    IN  IF seps = {} THEN <<>>
        ELSE LET last == CHOOSE i \in seps : \A j \in seps : j <= i
             IN  SubSeq(p, 1, last - 1)

\* process.cwd() as a path on disk: every path of the model is relative to it
projectDirPath == <<>>

(***************************************************************************)
(* State                                                                   *)
(***************************************************************************)
VARIABLES
    variant,        \* "full" (cli.ts) or "package" (the package-based script)
    platform,       \* os.platform()
    projectDir,     \* process.cwd() as text
    workTree,       \* whether git sees the project directory inside a work tree
    templateFile,   \* content of the bundled .mcp.template.json, or Absent
    fs,             \* directories present under the project directory
    gitmodules,     \* content of .gitmodules, or Absent
    gitignore,      \* content of .gitignore, or Absent
    mcpJson,        \* content of .roo/mcp.json, or Absent
    pc,             \* position of main
    idx,            \* loop index of the descriptor loops
    run,            \* number of the current run
    exitCode,       \* "running", 0 or 1
    error,          \* message of the error that reached main's catch
    missing,        \* checkPrerequisites: the list it reports
    allSuccessful,  \* addSubmodules: local flag
    addReturn,      \* <<b>> once addSubmodules returned b, <<>> before
    useSubmodules,  \* main: local flag
    updateResult,   \* "none", "ok" or "failed": git submodule update
    cloneRan,       \* cloneRepositories was called in this run
    outcome,        \* addSubmodules: branch taken per descriptor
    seen,           \* addSubmodules: what the iteration observed per descriptor
    cmds,           \* external commands issued in this run, in order
    chromePath,     \* value returned by installPlaywrightChromium
    geminiApiKey,   \* value returned by getGeminiApiKey
    finalContent,   \* generateMcpJson: the substituted text, Absent before
    mcpWrites,      \* writes of .roo/mcp.json in this run
    disk0,          \* the disk at the start of this run
    toolsPresent,   \* checkPrerequisites: the tools whose probe succeeded
    probeFailed,    \* addSubmodules: the probe or the manifest creation failed
    cloneCompletions, \* calls of cloneRepositories that returned, over all runs
    cloneFailedAt,  \* cloneRepositories: index of the descriptor whose clone failed, 0 if none
    gitignoreResult, \* updateGitignore: "none", "unchanged", "written" or "failed"
    order,          \* addSubmodules: the order in which the loop meets the descriptors
    oracle          \* per descriptor, the results its external operations may have

vars == << variant, platform, projectDir, workTree, templateFile, fs, gitmodules,
           gitignore, mcpJson, pc, idx, run, exitCode, error, missing,
           allSuccessful, addReturn, useSubmodules, updateResult, cloneRan,
           outcome, seen, cmds, chromePath, geminiApiKey, finalContent,
           mcpWrites, disk0, toolsPresent, probeFailed, cloneCompletions,
           cloneFailedAt, gitignoreResult, order, oracle >>

listVars == << order, oracle >>
fixedVars == << variant, platform, projectDir, workTree, templateFile, run, listVars >>
envVars == << fixedVars, cloneCompletions >>
diskVars == << fs, gitmodules, gitignore, mcpJson >>
addVars == << allSuccessful, addReturn, outcome, seen, probeFailed >>
renderVars == << chromePath, geminiApiKey, finalContent, mcpWrites >>
histVars == << cloneFailedAt, gitignoreResult >>

\* everything the program can change on disk
Disk == << fs, gitmodules, gitignore, mcpJson >>

NoOutcome == [k \in RepoIdx |-> "none"]
NoSeen ==
    [k \in RepoIdx |->
        [exists |-> FALSE, listed |-> FALSE, isSubmodule |-> FALSE, manifest |-> Absent]]

\* a top-level catch that prints the error and lets the process end normally
catchWithoutExit(msg) ==
    /\ pc' = "exit"
    /\ exitCode' = 0
    /\ error' = msg

\* throw reaching main's catch: cli.ts:725-735
Throw(msg) ==
    /\ pc' = "exit"
    /\ exitCode' = 1
    /\ error' = msg

Issue(list) == cmds' = cmds \o list

(***************************************************************************)
(* checkPrerequisites                                                      *)
(***************************************************************************)
\* cli.ts:57-65: the probe (which / where) succeeded for command
commandExists(command, present) == command \in present

\* cli.ts:77-81: a loop that stops at the first absent tool
RECURSIVE probeFirstMissing(_, _)
probeFirstMissing(list, present) ==
    IF list = <<>> THEN [probed |-> <<>>, missing |-> <<>>]
    ELSE IF ~commandExists(Head(list), present)
         THEN [probed |-> <<Head(list)>>, missing |-> <<Head(list)>>]
         ELSE LET r == probeFirstMissing(Tail(list), present)
              IN  [probed |-> <<Head(list)>> \o r.probed, missing |-> r.missing]

\* cli.ts:77-81: probe every tool of the list, collect the absent ones in order
RECURSIVE probeAll(_, _)
probeAll(list, present) ==
    IF list = <<>> THEN [probed |-> <<>>, missing |-> <<>>]
    ELSE LET r == probeAll(Tail(list), present)
         IN  [probed |-> <<Head(list)>> \o r.probed,
              missing |-> (IF commandExists(Head(list), present)
                           THEN <<>> ELSE <<Head(list)>>) \o r.missing]

\* cli.ts:72-98
checkPrerequisites ==
    /\ pc = "checkPrerequisites"
    /\ \E present \in SUBSET Range(prerequisites) :
         /\ Cardinality(Range(prerequisites) \ present) <= MaxAbsent
         /\ LET r == probeAll(prerequisites, present)
            IN  /\ missing' = r.missing
                /\ toolsPresent' = present
                /\ Issue([i \in 1..Len(r.probed) |-> <<"which", r.probed[i]>>])
                /\ IF Len(r.missing) > 0
                   THEN /\ pc' = "exit"
                        /\ exitCode' = 1
                        /\ error' = NoError
                   ELSE /\ pc' = "setupDirectories"
                        /\ UNCHANGED << exitCode, error >>
    /\ UNCHANGED << envVars, diskVars, idx, addVars, useSubmodules, updateResult,
                    cloneRan, renderVars, disk0, histVars >>

(***************************************************************************)
(* setupDirectories                                                        *)
(***************************************************************************)
rooDir == join(projectDirPath, <<".roo">>)
submodulesDir == join(projectDirPath, <<"submodules">>)

\* cli.ts:106-121 (package variant: 85-98)
setupDirectories ==
    /\ pc = "setupDirectories"
    /\ \E ensureOk \in BOOLEAN :
         IF ensureOk
         THEN /\ fs' = fs \cup {rooDir}
              /\ pc' = IF variant = "full" THEN "selectStrategy"
                       ELSE "installPlaywrightChromium"
              /\ UNCHANGED << exitCode, error >>
         ELSE /\ Throw("ensureDir .roo failed")
              /\ UNCHANGED fs
    /\ UNCHANGED << envVars, gitmodules, gitignore, mcpJson, idx, missing, toolsPresent, addVars,
                    useSubmodules, updateResult, cloneRan, cmds, renderVars, disk0, histVars >>

(***************************************************************************)
(* Disk helpers                                                            *)
(***************************************************************************)
\* fs.pathExists for a directory
pathExists(p, dirs) == p \in dirs

\* fs.ensureDir: the directory and every missing ancestor
ensureDir(p, dirs) ==
    dirs \cup {SubSeq(p, 1, i) : i \in {j \in 1..Len(p) : j = Len(p) \/ p[j + 1] = SEP}}

gitDir == join(projectDirPath, <<".git">>)

\* the lines git writes to .gitmodules for one registered path
ManifestEntry(path) == <<"[submodule]", NL, "\t", "path = ">> \o path \o <<NL>>

\* the manifest has a line that ends with exactly `path = <path>`
ManifestLists(content, path) ==
    /\ content # Absent
    /\ Includes(content, <<"path = ">> \o path \o <<NL>>)

(***************************************************************************)
(* main: strategy selection, cli.ts:624-663                                *)
(***************************************************************************)
\* a selector that clones only when the submodule path was taken and succeeded
needsCloneInverted(flag) == flag

\* cli.ts:660
needsClone(flag) == ~flag

\* cli.ts:659-666: where main goes once useSubmodules is settled
afterAcquisitionChoice(flag) ==
    IF needsClone(flag) THEN "cloneRepositories" ELSE "setupSubmodules"

\* a selector that takes the submodule path in every directory
isGitRepoAlways(dirs) == TRUE

\* cli.ts:625-626
isGitRepo(dirs) == pathExists(gitDir, dirs)

\* cli.ts:624-633
selectStrategy ==
    /\ pc = "selectStrategy"
    /\ pc' = IF isGitRepo(fs) THEN "addSubmodules" ELSE afterAcquisitionChoice(FALSE)
    /\ UNCHANGED << envVars, diskVars, idx, exitCode, error, missing, toolsPresent, addVars,
                    useSubmodules, updateResult, cloneRan, cmds, renderVars, disk0, histVars >>

\* a loop over the descriptors that never comes to its end
loopNeverDone(i) == FALSE

\* cli.ts:156, 227: 'for (const repo of REPOS)' ends after the last descriptor
loopDone(i) == i > Len(REPOS)

(***************************************************************************)
(* addSubmodules, cli.ts:130-215                                           *)
(***************************************************************************)
\* a probe failure that escapes the function
probeFailureEscapes == FALSE

\* cli.ts:147-151: the catch around the probe and the manifest creation
probeFailureCaught == TRUE

\* a manifest emptied whenever the probe runs
truncateManifest(content) == <<>>

\* cli.ts:141-146: .gitmodules is created empty only when it does not exist
touchManifest(content) == IF content = Absent THEN <<>> ELSE content

\* cli.ts:133-151
addSubmodulesProbe ==
    /\ pc = "addSubmodules"
    /\ Issue(<< <<"git rev-parse", 0>> >>)
    /\ \E writeOk \in BOOLEAN :
         LET failed == ~workTree \/ (gitmodules = Absent /\ ~writeOk)
         IN  /\ probeFailed' = failed
             /\ IF failed
                THEN IF probeFailureCaught
                     THEN /\ addReturn' = <<FALSE>>
                          /\ pc' = "afterAddSubmodules"
                          /\ UNCHANGED << exitCode, error, gitmodules, idx, allSuccessful >>
                     ELSE /\ Throw("git rev-parse failed")
                          /\ UNCHANGED << addReturn, gitmodules, idx, allSuccessful >>
                ELSE /\ gitmodules' = touchManifest(gitmodules)
                     /\ allSuccessful' = TRUE
                     /\ idx' = 1
                     /\ pc' = "addSubmodulesLoop"
                     /\ UNCHANGED << exitCode, error, addReturn >>
    /\ UNCHANGED << envVars, fs, gitignore, mcpJson, missing, toolsPresent, outcome, seen,
                    useSubmodules, updateResult, cloneRan, renderVars, disk0, histVars >>

\* cli.ts:157
submoduleTarget(repo) == join(projectDirPath, repo.path)

\* cli.ts:159-166
isSubmodule(content, repoPath) ==
    /\ content # Absent
    /\ Includes(content, <<"path = ">> \o repoPath)

\* a registration failure that leaves the flag alone
keepFlag(flag) == flag

\* cli.ts:192
markFailed(flag) == FALSE

\* a fallback that creates the target directory itself
fallbackParentIsTarget(targetPath) == targetPath

\* cli.ts:195
fallbackParent(targetPath) == dirname(targetPath)

\* a manifest read once, before the loop, and used for every descriptor
manifestCached(current, first) == first

\* cli.ts:158-160: the manifest is read inside the loop body
manifestRead(current, first) == current

\* a loop that also leaves alone a descriptor the manifest lists
skipsWhenListed(exists, isSub) == exists \/ isSub

\* cli.ts:168-178: both branches that issue no command require the target to
\* exist (isSubmodule && exists, else exists); everything else is registered
skipsRegistration(exists, isSub) == (isSub /\ exists) \/ exists

\* cli.ts:156-212, one iteration of the loop
addSubmodulesIter ==
    /\ pc = "addSubmodulesLoop"
    /\ idx <= Len(REPOS)
    /\ LET k == order[idx]
           repo == REPOS[k]
           targetPath == submoduleTarget(repo)
           gitModulesContent ==
               manifestRead(gitmodules, IF idx = 1 THEN gitmodules ELSE seen[order[1]].manifest)
           isSub == isSubmodule(gitModulesContent, repo.path)
           exists == pathExists(targetPath, fs)
       IN  /\ seen' = [seen EXCEPT ![k] =
                         [exists |-> exists,
                          listed |-> ManifestLists(gitModulesContent, repo.path),
                          isSubmodule |-> isSub,
                          manifest |-> gitModulesContent]]
           /\ IF skipsRegistration(exists, isSub)
              THEN /\ outcome' = [outcome EXCEPT ![k] =
                                     IF isSub THEN "AlreadyRegistered"
                                     ELSE "PresentButUnregistered"]
                   /\ idx' = idx + 1
                   /\ UNCHANGED << pc, exitCode, error, fs, gitmodules, allSuccessful, cmds >>
              ELSE \E addOk \in BOOLEAN, ensureOk \in BOOLEAN, cloneOk \in BOOLEAN :
                     /\ <<addOk, ensureOk, cloneOk>> \in oracle[k]
                     /\ IF addOk
                        THEN \* git submodule add succeeded
                             /\ Issue(<< <<"git submodule add", k>> >>)
                             /\ fs' = ensureDir(targetPath, fs)
                             /\ gitmodules' = gitmodules \o ManifestEntry(repo.path)
                             /\ outcome' = [outcome EXCEPT ![k] = "Registered"]
                             /\ idx' = idx + 1
                             /\ UNCHANGED << pc, exitCode, error, allSuccessful >>
                        ELSE /\ allSuccessful' = markFailed(allSuccessful)
                             /\ UNCHANGED gitmodules
                             /\ IF ~ensureOk
                                THEN \* fs.ensureDir throws inside the catch block
                                     /\ Issue(<< <<"git submodule add", k>> >>)
                                     /\ Throw("ensureDir failed")
                                     /\ outcome' = [outcome EXCEPT ![k] = "Failed"]
                                     /\ UNCHANGED << fs, idx >>
                                ELSE /\ Issue(<< <<"git submodule add", k>>,
                                                 <<"git clone", k>> >>)
                                     /\ idx' = idx + 1
                                     /\ UNCHANGED << pc, exitCode, error >>
                                     /\ IF cloneOk
                                        THEN /\ fs' = ensureDir(targetPath,
                                                         ensureDir(fallbackParent(targetPath), fs))
                                             /\ outcome' = [outcome EXCEPT
                                                    ![k] = "RegisteredViaFallbackClone"]
                                        ELSE /\ fs' = ensureDir(fallbackParent(targetPath), fs)
                                             /\ outcome' = [outcome EXCEPT ![k] = "Failed"]
    /\ UNCHANGED << envVars, gitignore, mcpJson, missing, toolsPresent, addReturn,
                    probeFailed, useSubmodules, updateResult, cloneRan, renderVars,
                    disk0, histVars >>

\* cli.ts:214
addSubmodulesReturn ==
    /\ pc = "addSubmodulesLoop"
    /\ loopDone(idx)
    /\ addReturn' = <<allSuccessful>>
    /\ pc' = "afterAddSubmodules"
    /\ UNCHANGED << envVars, diskVars, idx, exitCode, error, missing, toolsPresent,
                    allSuccessful, outcome, seen, probeFailed, useSubmodules,
                    updateResult, cloneRan, cmds, renderVars, disk0, histVars >>

\* a failed update after which the submodule path is kept
flagKeptAfterUpdateFailure == TRUE

\* cli.ts:648-656: the catch around the update sets useSubmodules = false
flagAfterUpdateFailure == FALSE

\* cli.ts:633-656: useSubmodules = await addSubmodules(...), then the update step
submoduleUpdate ==
    /\ pc = "afterAddSubmodules"
    /\ IF addReturn = <<TRUE>>
       THEN \E updateOk \in BOOLEAN :
              /\ Issue(<< <<"git submodule update", 0>> >>)
              /\ IF updateOk
                 THEN /\ updateResult' = "ok"
                      /\ useSubmodules' = TRUE
                      /\ pc' = "updateGitignore"
                 ELSE /\ updateResult' = "failed"
                      /\ useSubmodules' = flagAfterUpdateFailure
                      /\ pc' = afterAcquisitionChoice(flagAfterUpdateFailure)
       ELSE /\ useSubmodules' = FALSE
            /\ pc' = afterAcquisitionChoice(FALSE)
            /\ UNCHANGED << updateResult, cmds >>
    /\ UNCHANGED << envVars, diskVars, idx, exitCode, error, missing, toolsPresent, addVars,
                    cloneRan, renderVars, disk0, histVars >>

(***************************************************************************)
(* updateGitignore, cli.ts:257-293                                         *)
(***************************************************************************)
WS == {" ", "\t", "\r"}

\* a list without the entry of the rendered configuration file
entriesWithoutConfig(v) == <<".browsers/", ".codebase/">>

\* cli.ts:259 (package variant: 107-112)
entriesToAdd(v) ==
    IF v = "full" THEN <<".browsers/", ".codebase/", ".roo/mcp.json">>
    ELSE <<".browsers/", ".browser-use/", ".codebase/", ".roo/mcp.json">>

\* String.prototype.split("\n")
RECURSIVE split(_)
split(text) ==
    LET nls == {i \in 1..Len(text) : text[i] = NL}
    IN  IF nls = {} THEN <<text>>
        ELSE LET first == CHOOSE i \in nls : \A j \in nls : i <= j
             IN  <<SubSeq(text, 1, first - 1)>> \o split(SubSeq(text, first + 1, Len(text)))

\* String.prototype.trim
RECURSIVE trim(_)
trim(line) ==
    IF line = <<>> THEN <<>>
    ELSE IF Head(line) \in WS THEN trim(Tail(line))
    ELSE IF line[Len(line)] \in WS THEN trim(SubSeq(line, 1, Len(line) - 1))
    ELSE line

\* a membership test on the lines as they are, without trim
hasEntryUntrimmed(content, entry) ==
    \E k \in 1..Len(split(content)) : split(content)[k] = <<entry>>

\* cli.ts:269-270
hasEntry(content, entry) ==
    \E k \in 1..Len(split(content)) : trim(split(content)[k]) = <<entry>>

\* an append that never starts a new line first
appendWithoutNewline(content, entry) == content \o <<entry, NL>>

\* cli.ts:272-275
appendEntry(content, entry) ==
    content \o (IF Len(content) > 0 /\ ~EndsWith(content, NL) THEN <<NL>> ELSE <<>>)
            \o <<entry, NL>>

\* cli.ts:267-280: the loop over entriesToAdd
RECURSIVE addEntries(_, _)
addEntries(content, entries) ==
    IF entries = <<>> THEN [content |-> content, needsUpdate |-> FALSE]
    ELSE IF hasEntry(content, Head(entries))
         THEN addEntries(content, Tail(entries))
         ELSE [content |-> addEntries(appendEntry(content, Head(entries)),
                                      Tail(entries)).content,
               needsUpdate |-> TRUE]

\* a catch block that logs the error and throws it again
gitignoreFailureRethrown == FALSE

\* cli.ts:288-292: "Non-critical error, don't throw"
gitignoreFailureSwallowed == TRUE

\* cli.ts:257-293
updateGitignore ==
    /\ pc = "updateGitignore"
    /\ \E readOk \in BOOLEAN, writeOk \in BOOLEAN :
         LET content == IF gitignore = Absent THEN <<>> ELSE gitignore
             r == addEntries(content, entriesToAdd(variant))
             failed == (gitignore # Absent /\ ~readOk) \/ (r.needsUpdate /\ ~writeOk)
         IN  /\ gitignore' = IF failed \/ ~r.needsUpdate THEN gitignore ELSE r.content
             /\ gitignoreResult' = IF failed THEN "failed"
                                   ELSE IF r.needsUpdate THEN "written" ELSE "unchanged"
             /\ IF failed /\ ~gitignoreFailureSwallowed
                THEN \* the error would reach the catch of main at cli.ts:649-656
                     /\ useSubmodules' = FALSE
                     /\ pc' = afterAcquisitionChoice(FALSE)
                ELSE /\ pc' = afterAcquisitionChoice(useSubmodules)
                     /\ UNCHANGED useSubmodules
    /\ UNCHANGED << envVars, fs, gitmodules, mcpJson, idx, exitCode, error, missing,
                    toolsPresent, addVars, updateResult, cloneRan, cmds, renderVars,
                    disk0, cloneFailedAt >>

(***************************************************************************)
(* cloneRepositories, cli.ts:223-250                                       *)
(***************************************************************************)
\* a clone loop that keeps its clones in a directory of its own
cloneTargetElsewhere(repo) == join(<<"repos">>, <<repo.name>>)

\* cli.ts:228
cloneTarget(repo) == join(submodulesDir, <<repo.name>>)

\* a loop that clones whether or not the directory is there
cloneNeverSkips(targetPath, dirs) == FALSE

\* cli.ts:230
cloneSkips(targetPath, dirs) == pathExists(targetPath, dirs)

\* a clone failure that is logged and passed over
cloneFailureSwallowed == FALSE

\* cli.ts:247
cloneFailureIsFatal == TRUE

\* cli.ts:223-225
cloneRepositoriesStart ==
    /\ pc = "cloneRepositories"
    /\ cloneRan' = TRUE
    /\ \E ensureOk \in BOOLEAN :
         IF ensureOk
         THEN /\ fs' = ensureDir(submodulesDir, fs)
              /\ idx' = 1
              /\ pc' = "cloneLoop"
              /\ UNCHANGED << exitCode, error >>
         ELSE /\ Throw("ensureDir submodules failed")
              /\ UNCHANGED << fs, idx >>
    /\ UNCHANGED << envVars, gitmodules, gitignore, mcpJson, missing, toolsPresent, addVars,
                    useSubmodules, updateResult, cmds, renderVars, disk0, histVars >>

\* cli.ts:227-249, one iteration of the loop
cloneRepositoriesIter ==
    /\ pc = "cloneLoop"
    /\ idx <= Len(REPOS)
    /\ LET targetPath == cloneTarget(REPOS[idx])
       IN  IF cloneSkips(targetPath, fs)
           THEN /\ idx' = idx + 1
                /\ UNCHANGED << pc, exitCode, error, fs, cmds, cloneFailedAt >>
           ELSE /\ Issue(<< <<"git clone", idx>> >>)
                /\ \E cloneOk \in BOOLEAN :
                     \* git clone refuses a directory that is already there
                     IF cloneOk /\ ~pathExists(targetPath, fs)
                     THEN /\ fs' = ensureDir(targetPath, fs)
                          /\ idx' = idx + 1
                          /\ UNCHANGED << pc, exitCode, error, cloneFailedAt >>
                     ELSE /\ cloneFailedAt' = IF cloneFailedAt = 0 THEN idx
                                              ELSE cloneFailedAt
                          /\ IF cloneFailureIsFatal
                             THEN /\ Throw("git clone failed")
                                  /\ UNCHANGED << fs, idx >>
                             ELSE /\ idx' = idx + 1
                                  /\ UNCHANGED << pc, exitCode, error, fs >>
    /\ UNCHANGED << envVars, gitmodules, gitignore, mcpJson, missing, toolsPresent, addVars,
                    useSubmodules, updateResult, cloneRan, renderVars, disk0,
                    gitignoreResult >>

\* cli.ts:249-250
cloneRepositoriesReturn ==
    /\ pc = "cloneLoop"
    /\ loopDone(idx)
    /\ pc' = "setupSubmodules"
    /\ cloneCompletions' = cloneCompletions + 1
    /\ UNCHANGED << fixedVars, diskVars, idx, exitCode, error, missing, toolsPresent, addVars,
                    useSubmodules, updateResult, cloneRan, cmds, renderVars, disk0, histVars >>

(***************************************************************************)
(* setupSubmodules, cli.ts:301-399                                         *)
(***************************************************************************)
\* cli.ts:375
codebaseMcpDir == join(submodulesDir, <<"codebase-mcp">>)

\* a main that renders the configuration right after the build step
renderAfterSetupSubmodules == "generateMcpJson"

\* cli.ts:666-668: the browser install follows setupSubmodules
afterSetupSubmodules == "installPlaywrightChromium"

\* cli.ts:301-399: npm/bun install and build in the directories that exist
setupSubmodules ==
    /\ pc = "setupSubmodules"
    /\ \E toolsDirs \in BOOLEAN, buildOk \in BOOLEAN :
         LET runs == toolsDirs \/ pathExists(codebaseMcpDir, fs)
         IN  /\ Issue(IF runs THEN << <<"install and build", 0>> >> ELSE <<>>)
             /\ IF runs /\ ~buildOk
                THEN Throw("install or build failed")
                ELSE /\ pc' = afterSetupSubmodules
                     /\ UNCHANGED << exitCode, error >>
    /\ UNCHANGED << envVars, diskVars, idx, missing, toolsPresent, addVars, useSubmodules,
                    updateResult, cloneRan, renderVars, disk0, histVars >>

(***************************************************************************)
(* installPlaywrightChromium, cli.ts:408-487                               *)
(***************************************************************************)
\* path.sep of the platform
sep(plat) == IF plat = "win32" THEN BSL ELSE SEP

\* path.isAbsolute
isAbsolute(p, plat) ==
    /\ Len(p) > 0
    /\ \/ p[1] = SEP
       \/ plat = "win32" /\ (p[1] = BSL \/ p[1] = "C:")

\* path.resolve(p) with process.cwd() = cwd
pathResolve(p, cwd, plat) ==
    IF isAbsolute(p, plat) THEN p ELSE cwd \o <<sep(plat)>> \o p

\* cli.ts:442-466: the executable path looked for under .browsers
executablePath(plat) ==
    IF plat = "win32"
    THEN <<".browsers", BSL, "chrome-win", BSL, "chrome.exe">>
    ELSE IF plat = "darwin"
    THEN <<".browsers", SEP, "chrome-mac", SEP, "chrome">>
    ELSE <<".browsers", SEP, "chrome-linux", SEP, "chrome">>

SupportedPlatforms == {"darwin", "linux", "win32"}

browsersDir == join(projectDirPath, <<".browsers">>)

\* cli.ts:408-487
installPlaywrightChromium ==
    /\ pc = "installPlaywrightChromium"
    /\ Issue(<< <<"npx playwright install", 0>> >>)
    /\ \E installOk \in BOOLEAN, chromiumDir \in BOOLEAN, found \in BOOLEAN :
         IF ~installOk
         THEN /\ Throw("playwright install failed")
              /\ UNCHANGED << fs, chromePath >>
         ELSE /\ fs' = ensureDir(browsersDir, fs)
              /\ IF ~chromiumDir
                 THEN /\ Throw("Could not find Chromium directory within .browsers")
                      /\ UNCHANGED chromePath
                 ELSE IF platform \notin SupportedPlatforms
                 THEN /\ Throw("Unsupported platform")
                      /\ UNCHANGED chromePath
                 ELSE /\ chromePath' =
                           IF found
                           THEN pathResolve(executablePath(platform), projectDir, platform)
                           ELSE <<CHROME_PATH_DETECTION_FAILED>>
                      /\ pc' = "getGeminiApiKey"
                      /\ UNCHANGED << exitCode, error >>
    /\ UNCHANGED << envVars, gitmodules, gitignore, mcpJson, idx, missing, toolsPresent, addVars,
                    useSubmodules, updateResult, cloneRan, geminiApiKey, finalContent,
                    mcpWrites, disk0, histVars >>

(***************************************************************************)
(* getGeminiApiKey, cli.ts:494-518                                         *)
(***************************************************************************)
RECURSIVE CharLen(_)
CharLen(text) == IF text = <<>> THEN 0 ELSE Len(Head(text)) + CharLen(Tail(text))

\* cli.ts:506-514
validate(input) ==
    IF input = <<>> THEN "API Key cannot be empty."
    ELSE IF CharLen(input) < MinKeyLen THEN "API Key seems too short."
    ELSE "true"

\* what the user may type at the prompt
KeyInputs ==
    { <<>>,
      <<"a", "b", "c">>,
      <<"abcdefgh", "i", "j">>,
      <<"abcdefgh", QUOTE, "j">>,
      <<"abcdefgh", "$", "&">> }

\* cli.ts:494-518: the prompt asks again until validate accepts the input
getGeminiApiKey ==
    /\ pc = "getGeminiApiKey"
    /\ \E input \in KeyInputs :
         /\ validate(input) = "true"
         /\ geminiApiKey' = input
    /\ pc' = "generateMcpJson"
    /\ UNCHANGED << envVars, diskVars, idx, exitCode, error, missing, toolsPresent, addVars,
                    useSubmodules, updateResult, cloneRan, cmds, chromePath,
                    finalContent, mcpWrites, disk0, histVars >>

(***************************************************************************)
(* generateMcpJson, cli.ts:528-610                                         *)
(***************************************************************************)
\* String.prototype.replace(/\\/g, "\\\\")
escapeBackslashes(text) ==
    Flatten([i \in 1..Len(text) |-> IF text[i] = BSL THEN <<BSL, BSL>> ELSE <<text[i]>>])

\* the backtick and the apostrophe as tokens
BACKTICK == "<backtick>"
APOS == "<apostrophe>"

DollarPatterns == {"$", "&", BACKTICK, APOS}

\* first position of the run of "$" that ends at position i
dollarRunStart(repl, i) ==
    CHOOSE s \in 1..i :
        /\ \A j \in s..i : repl[j] = "$"
        /\ s = 1 \/ repl[s - 1] # "$"

\* position i starts one of the patterns $$, $&, $backtick, $apostrophe (scanning left to right)
isPatternStart(repl, i) ==
    /\ repl[i] = "$"
    /\ i < Len(repl)
    /\ repl[i + 1] \in DollarPatterns
    /\ (i - dollarRunStart(repl, i)) % 2 = 0

\* ECMAScript GetSubstitution: the $-patterns of a replacement string
getSubstitution(repl, matched, before, after) ==
    Flatten([i \in 1..Len(repl) |->
        IF isPatternStart(repl, i)
        THEN CASE repl[i + 1] = "$" -> <<"$">>
               [] repl[i + 1] = "&" -> matched
               [] repl[i + 1] = BACKTICK -> before
               [] OTHER -> after
        ELSE IF i > 1 /\ isPatternStart(repl, i - 1) THEN <<>>
        ELSE <<repl[i]>>])

\* String.prototype.replace(/<placeholder>/g, repl)
replaceAll(text, placeholder, repl) ==
    Flatten([i \in 1..Len(text) |->
        IF text[i] = placeholder
        THEN getSubstitution(repl, <<placeholder>>,
                             SubSeq(text, 1, i - 1), SubSeq(text, i + 1, Len(text)))
        ELSE <<text[i]>>])

\* cli.ts:561-571
substitute(template, cwd, chrome, key, plat) ==
    LET escapedProjectDir == escapeBackslashes(cwd)
        absoluteChromePath == pathResolve(chrome, cwd, plat)
        escapedChromePath == escapeBackslashes(absoluteChromePath)
    IN  replaceAll(
          replaceAll(
            replaceAll(
              replaceAll(template, PH_PWD, escapedProjectDir),
              PH_CHROME, escapedChromePath),
            PH_BROWSER_KEY, key),
          PH_CODEBASE_KEY, key)

JsonWS == {" ", "\t", "\r", NL}
JsonEscapes == {QUOTE, BSL, SEP, "b", "f", "n", "r", "t"}
JsonLiterals == {"true", "false", "null", "0"}

\* JSON.parse as a recogniser, one token at a time: st is the parser's
\* position ("error" once the text is rejected), stack the open brackets
jsonStep(c, tok) ==
    LET st == c.st
        stack == c.stack
        top == IF stack = <<>> THEN "" ELSE stack[Len(stack)]
        pop == SubSeq(stack, 1, Len(stack) - 1)
        err == [st |-> "error", stack |-> <<>>]
    IN  CASE st \in {"value", "valueOrClose"} ->
               IF tok \in JsonWS THEN c
               ELSE IF tok = "{" THEN [st |-> "keyOrClose", stack |-> stack \o <<"{">>]
               ELSE IF tok = "[" THEN [st |-> "valueOrClose", stack |-> stack \o <<"[">>]
               ELSE IF tok = "]" /\ st = "valueOrClose"
                    THEN [st |-> "afterValue", stack |-> pop]
               ELSE IF tok = QUOTE THEN [c EXCEPT !.st = "strVal"]
               ELSE IF tok \in JsonLiterals THEN [c EXCEPT !.st = "afterValue"]
               ELSE err
          [] st \in {"key", "keyOrClose"} ->
               IF tok \in JsonWS THEN c
               ELSE IF tok = "}" /\ st = "keyOrClose"
                    THEN [st |-> "afterValue", stack |-> pop]
               ELSE IF tok = QUOTE THEN [c EXCEPT !.st = "strKey"]
               ELSE err
          [] st \in {"strKey", "strVal"} ->
               IF tok = QUOTE
               THEN [c EXCEPT !.st = IF st = "strKey" THEN "colon" ELSE "afterValue"]
               ELSE IF tok = BSL
               THEN [c EXCEPT !.st = IF st = "strKey" THEN "escKey" ELSE "escVal"]
               ELSE IF tok \in {NL, "\t", "\r"} THEN err
               ELSE c
          [] st \in {"escKey", "escVal"} ->
               IF tok \in JsonEscapes
               THEN [c EXCEPT !.st = IF st = "escKey" THEN "strKey" ELSE "strVal"]
               ELSE err
          [] st = "colon" ->
               IF tok \in JsonWS THEN c
               ELSE IF tok = ":" THEN [c EXCEPT !.st = "value"]
               ELSE err
          [] st = "afterValue" ->
               IF tok \in JsonWS THEN c
               ELSE IF tok = "," /\ top = "{" THEN [c EXCEPT !.st = "key"]
               ELSE IF tok = "," /\ top = "[" THEN [c EXCEPT !.st = "value"]
               ELSE IF tok = "}" /\ top = "{" THEN [st |-> "afterValue", stack |-> pop]
               ELSE IF tok = "]" /\ top = "[" THEN [st |-> "afterValue", stack |-> pop]
               ELSE err
          [] OTHER -> err

\* the parser's position after tokens lo..hi of text, started at c
\* (by halves, to keep the evaluation shallow)
RECURSIVE jsonRun(_, _, _, _)
jsonRun(text, c, lo, hi) ==
    IF c.st = "error" \/ lo > hi THEN c
    ELSE IF lo = hi THEN jsonStep(c, text[lo])
    ELSE LET mid == (lo + hi) \div 2
         IN  jsonRun(text, jsonRun(text, c, lo, mid), mid + 1, hi)

jsonScan(text) == jsonRun(text, [st |-> "value", stack |-> <<>>], 1, Len(text))

\* cli.ts:577: JSON.parse(finalContent) returns instead of throwing
jsonParses(text) ==
    LET c == jsonScan(text) IN c.st = "afterValue" /\ c.stack = <<>>

\* a catch block that logs the parse error and goes on
validationSkipped(text) == TRUE

\* cli.ts:574-587: the try around JSON.parse did not throw
validated(text) == jsonParses(text)

\* a write failure reported with the message of the read step
writeErrorAsReadError == "Failed to read template file"

\* cli.ts:603: the error the guard of the write step raises
writeError == "Failed to write configuration file"

\* a main that ends right after rendering in both variants
afterRenderAlwaysExit(v) == "exit"

\* cli.ts:672-724 only logs after rendering; the package script awaits the
\* chrome-extension-path lookup there (part_001:387-391)
afterRender(v) == IF v = "full" THEN "exit" ELSE "nextSteps"

\* a write that keeps a configuration file that is already there
keepPrevious(old, text) == IF old = Absent THEN text ELSE old

\* cli.ts:589-593: fs.writeFile(targetPath, finalContent)
targetAfterWrite(old, text) == text

\* cli.ts:528-610; the caller's continuation after it is cli.ts:672-724
generateMcpJson ==
    /\ pc = "generateMcpJson"
    /\ \E ensureOk \in BOOLEAN, writeOk \in BOOLEAN :
         IF ~ensureOk
         THEN /\ Throw("ensureDir .roo failed")
              /\ UNCHANGED << fs, mcpJson, finalContent, mcpWrites >>
         ELSE /\ fs' = ensureDir(rooDir, fs)
              /\ IF templateFile = Absent
                 THEN /\ Throw("Failed to read template file")
                      /\ UNCHANGED << mcpJson, finalContent, mcpWrites >>
                 ELSE LET final == substitute(templateFile, projectDir, chromePath,
                                              geminiApiKey, platform)
                      IN  /\ finalContent' = final
                          /\ IF ~validated(final)
                             THEN /\ Throw("Failed to generate valid JSON for mcp.json")
                                  /\ UNCHANGED << mcpJson, mcpWrites >>
                             ELSE IF ~writeOk
                             THEN /\ Throw(writeError)
                                  /\ UNCHANGED << mcpJson, mcpWrites >>
                             ELSE /\ mcpJson' = targetAfterWrite(mcpJson, final)
                                  /\ mcpWrites' = mcpWrites + 1
                                  /\ IF afterRender(variant) = "exit"
                                     THEN /\ pc' = "exit"
                                          /\ exitCode' = 0
                                          /\ UNCHANGED error
                                     ELSE /\ pc' = "nextSteps"
                                          /\ UNCHANGED << exitCode, error >>
    /\ UNCHANGED << envVars, gitmodules, gitignore, idx, missing, toolsPresent, addVars,
                    useSubmodules, updateResult, cloneRan, cmds, chromePath,
                    geminiApiKey, disk0, histVars >>

\* package variant, 387-421: the chrome-extension-path lookup after rendering
nextSteps ==
    /\ pc = "nextSteps"
    /\ Issue(<< <<"npx chrome-extension-path", 0>> >>)
    /\ \E lookupOk \in BOOLEAN :
         IF lookupOk
         THEN /\ pc' = "exit"
              /\ exitCode' = 0
              /\ UNCHANGED error
         ELSE Throw("chrome-extension-path failed")
    /\ UNCHANGED << envVars, diskVars, idx, missing, toolsPresent, addVars, useSubmodules,
                    updateResult, cloneRan, renderVars, disk0, histVars >>

(***************************************************************************)
(* Initial states: the environment and the disk the program is started on  *)
(***************************************************************************)
Envs ==
    { [platform |-> "linux", projectDir |-> <<SEP, "home", SEP, "proj">>],
      [platform |-> "win32", projectDir |-> <<"C:", BSL, "proj">>],
      [platform |-> "freebsd", projectDir |-> <<SEP, "home", SEP, "proj">>] }

\* a well-formed template holding the four placeholders
TemplateOk ==
    <<"{", QUOTE, "pwd", QUOTE, ":", QUOTE, PH_PWD, QUOTE, ",",
      QUOTE, "chrome", QUOTE, ":", QUOTE, PH_CHROME, QUOTE, ",",
      QUOTE, "keys", QUOTE, ":", "[", QUOTE, PH_BROWSER_KEY, QUOTE, ",",
      QUOTE, PH_CODEBASE_KEY, QUOTE, "]", "}">>

\* the same template with its closing brace missing
TemplateUnclosed == SubSeq(TemplateOk, 1, Len(TemplateOk) - 1)

\* a template that uses a placeholder outside a string literal
TemplateBare == <<"{", QUOTE, "pwd", QUOTE, ":", PH_PWD, "}">>

\* a well-formed template laid out with blanks and a line break
TemplateSpaced ==
    <<"{", " ", QUOTE, "pwd", QUOTE, ":", " ", QUOTE, PH_PWD, QUOTE, NL, "}">>

Templates == {TemplateOk, TemplateUnclosed, TemplateBare, TemplateSpaced}

\* a path another project registered, of which a descriptor's path is a prefix
ForeignPath == <<"submodules", SEP, "codebase-mcp", "-fork">>

\* manifests: none, empty, or the entries of some registered paths
Manifests ==
    {Absent, <<>>}
    \cup {Flatten([i \in 1..Len(ps) |-> ManifestEntry(ps[i])]) :
            ps \in { <<REPOS[1].path>>,
                     <<REPOS[1].path, REPOS[2].path, REPOS[3].path>>,
                     <<ForeignPath>>,
                     <<REPOS[3].path, ForeignPath>> }}

Gitignores ==
    { Absent,
      <<"node_modules", NL, " ", ".browsers/", " ">> }

OldConfig == <<"{", "}">>

TargetDirs(ks) ==
    UNION {ensureDir(submoduleTarget(REPOS[k]), {}) : k \in ks}

StartRun(n) ==
    /\ pc = "checkPrerequisites"
    /\ run = n
    /\ idx = 1
    /\ exitCode = "running"
    /\ error = NoError
    /\ missing = <<>>
    /\ allSuccessful = TRUE
    /\ addReturn = <<>>
    /\ useSubmodules = FALSE
    /\ updateResult = "none"
    /\ cloneRan = FALSE
    /\ outcome = NoOutcome
    /\ seen = NoSeen
    /\ cmds = <<>>
    /\ chromePath = <<>>
    /\ geminiApiKey = <<>>
    /\ finalContent = Absent
    /\ mcpWrites = 0
    /\ disk0 = Disk
    /\ toolsPresent = {}
    /\ probeFailed = FALSE
    /\ cloneFailedAt = 0
    /\ gitignoreResult = "none"

\* cli.ts:33-49, 156: the loop meets the descriptors in the order of REPOS
SourceOrder == [i \in RepoIdx |-> i]

\* cli.ts:181-203: results of 'git submodule add', of fs.ensureDir and of the
\* fallback 'git clone' of one descriptor; nothing is known about them
Results == BOOLEAN \X BOOLEAN \X BOOLEAN
AnyResult == [k \in RepoIdx |-> Results]

\* the disks and environments a run may start on
InitWith(variants, envs, templates, mcps, manifests, gitignores, targetSets) ==
    /\ variant \in variants
    /\ \E e \in envs : platform = e.platform /\ projectDir = e.projectDir
    /\ templateFile \in templates
    /\ IF variant = "full"
       THEN /\ workTree \in BOOLEAN
            /\ \E dotGit \in BOOLEAN, ks \in targetSets :
                 fs = TargetDirs(ks) \cup (IF dotGit THEN {gitDir} ELSE {})
            /\ gitmodules \in manifests
            /\ gitignore \in gitignores
       ELSE /\ workTree = FALSE
            /\ fs = {}
            /\ gitmodules = Absent
            /\ gitignore = Absent
    /\ mcpJson \in mcps
    /\ cloneCompletions = 0
    /\ order = SourceOrder
    /\ oracle = AnyResult
    /\ StartRun(1)

MainEnvs == {e \in Envs : e.platform = "linux"}

Init ==
    InitWith({"full", "package"}, MainEnvs, {TemplateOk, TemplateUnclosed},
             {Absent}, Manifests, Gitignores, SUBSET RepoIdx)

(***************************************************************************)
(* The program run again on the disk the previous run left                 *)
(***************************************************************************)
Rerun ==
    /\ pc = "exit"
    /\ run < MaxRuns
    /\ pc' = "checkPrerequisites"
    /\ run' = run + 1
    /\ idx' = 1
    /\ exitCode' = "running"
    /\ error' = NoError
    /\ missing' = <<>>
    /\ allSuccessful' = TRUE
    /\ addReturn' = <<>>
    /\ useSubmodules' = FALSE
    /\ updateResult' = "none"
    /\ cloneRan' = FALSE
    /\ outcome' = NoOutcome
    /\ seen' = NoSeen
    /\ cmds' = <<>>
    /\ chromePath' = <<>>
    /\ geminiApiKey' = <<>>
    /\ finalContent' = Absent
    /\ mcpWrites' = 0
    /\ disk0' = Disk
    /\ toolsPresent' = {}
    /\ probeFailed' = FALSE
    /\ cloneFailedAt' = 0
    /\ gitignoreResult' = "none"
    /\ UNCHANGED << variant, platform, projectDir, workTree, templateFile, diskVars,
                    cloneCompletions, listVars >>

Next ==
    \/ checkPrerequisites
    \/ setupDirectories
    \/ selectStrategy
    \/ addSubmodulesProbe
    \/ addSubmodulesIter
    \/ addSubmodulesReturn
    \/ submoduleUpdate
    \/ updateGitignore
    \/ cloneRepositoriesStart
    \/ cloneRepositoriesIter
    \/ cloneRepositoriesReturn
    \/ setupSubmodules
    \/ installPlaywrightChromium
    \/ getGeminiApiKey
    \/ generateMcpJson
    \/ nextSteps

\* one run of the program
Spec == Init /\ [][Next]_vars

\* one run in which every step that main awaits returns: main is sequential,
\* so the step it is at is taken as soon as the call it waits for is over
InitFair ==
    InitWith({"full", "package"}, MainEnvs, {TemplateOk, TemplateUnclosed}, {Absent},
             {Absent, <<>>}, {Absent}, {{}, {2}})

SpecFair == InitFair /\ [][Next]_vars /\ WF_vars(Next)

\* one run, over every platform, template and earlier configuration file
InitRender ==
    InitWith({"full", "package"}, Envs, Templates \cup {Absent}, {Absent, OldConfig},
             {Absent, <<>>}, {Absent}, {{}, RepoIdx})

SpecRender == InitRender /\ [][Next]_vars

\* up to MaxRuns runs in the same project directory
InitRerun ==
    InitWith({"full", "package"}, MainEnvs, {TemplateOk}, {Absent},
             {Absent, ManifestEntry(REPOS[1].path)}, {Absent}, {{}, {1}})

NextRerun == Next \/ Rerun

SpecRerun == InitRerun /\ [][NextRerun]_vars

(***************************************************************************)
(* updateGitignore called repeatedly on .gitignore files of every shape    *)
(***************************************************************************)
GitignoreTokens ==
    {".browsers/", ".browser-use/", ".codebase/", ".roo/mcp.json", "node_modules", " ", NL}

\* number of lines of content that are entry once trimmed
CountLines(content, entry) ==
    IF content = Absent THEN 0
    ELSE Cardinality({k \in 1..Len(split(content)) : trim(split(content)[k]) = <<entry>>})

\* .gitignore files of at most MaxContentLen tokens in which no entry is
\* listed more than once
GitignoreContents(v) ==
    {c \in {Absent} \cup UNION {[1..n -> GitignoreTokens] : n \in 0..MaxContentLen} :
        \A i \in 1..Len(entriesToAdd(v)) : CountLines(c, entriesToAdd(v)[i]) <= 1}

\* main at cli.ts:646-647 (the package script defines the function, 105-146)
InitGitignore ==
    /\ variant \in {"full", "package"}
    /\ platform = "linux"
    /\ projectDir = <<SEP, "home", SEP, "proj">>
    /\ workTree = TRUE
    /\ templateFile = TemplateOk
    /\ fs = {gitDir, rooDir}
    /\ gitmodules = <<>>
    /\ gitignore \in GitignoreContents(variant)
    /\ mcpJson = Absent
    /\ pc = "updateGitignore"
    /\ idx = Len(REPOS) + 1
    /\ run = 1
    /\ exitCode = "running"
    /\ error = NoError
    /\ missing = <<>>
    /\ allSuccessful = TRUE
    /\ addReturn = <<TRUE>>
    /\ useSubmodules = TRUE
    /\ updateResult = "ok"
    /\ cloneRan = FALSE
    /\ outcome = NoOutcome
    /\ seen = NoSeen
    /\ cmds = <<>>
    /\ chromePath = <<>>
    /\ geminiApiKey = <<>>
    /\ finalContent = Absent
    /\ mcpWrites = 0
    /\ disk0 = Disk
    /\ toolsPresent = Range(prerequisites)
    /\ probeFailed = FALSE
    /\ cloneCompletions = 0
    /\ cloneFailedAt = 0
    /\ gitignoreResult = "none"
    /\ order = SourceOrder
    /\ oracle = AnyResult

\* the function called once more on the file the previous call left
updateGitignoreAgain ==
    /\ pc = "setupSubmodules"
    /\ run < MaxRuns
    /\ pc' = "updateGitignore"
    /\ run' = run + 1
    /\ UNCHANGED << variant, platform, projectDir, workTree, templateFile, cloneCompletions,
                    listVars, diskVars, idx, exitCode, error, missing, toolsPresent, addVars,
                    useSubmodules, updateResult, cloneRan, cmds, renderVars, disk0,
                    histVars >>

NextGitignore == updateGitignore \/ updateGitignoreAgain

SpecGitignore == InitGitignore /\ [][NextGitignore]_vars

(***************************************************************************)
(* addSubmodules over every order of the descriptor list                   *)
(***************************************************************************)
\* the orders in which 'for (const repo of REPOS)' can meet the descriptors
Orders == {o \in [RepoIdx -> RepoIdx] : \A i, j \in RepoIdx : o[i] = o[j] => i = j}

\* registration succeeds; registration fails and the fallback clone succeeds;
\* both fail; registration fails and fs.ensureDir fails as well
ResultKinds == {<<TRUE, TRUE, TRUE>>, <<FALSE, TRUE, TRUE>>, <<FALSE, TRUE, FALSE>>,
                <<FALSE, FALSE, FALSE>>}

\* main at cli.ts:633, inside a git repository, with the results of every
\* descriptor's external operations fixed in advance
InitOrder ==
    /\ variant = "full"
    /\ platform = "linux"
    /\ projectDir = <<SEP, "home", SEP, "proj">>
    /\ workTree = TRUE
    /\ templateFile = TemplateOk
    /\ \E ks \in {{}, {2}} : fs = TargetDirs(ks) \cup {gitDir, rooDir}
    /\ gitmodules \in {Absent, <<>>}
    /\ gitignore = Absent
    /\ mcpJson = Absent
    /\ cloneCompletions = 0
    /\ order \in Orders
    /\ oracle \in [RepoIdx -> {{r} : r \in ResultKinds}]
    /\ pc = "addSubmodules"
    /\ run = 1
    /\ idx = 1
    /\ exitCode = "running"
    /\ error = NoError
    /\ missing = <<>>
    /\ allSuccessful = TRUE
    /\ addReturn = <<>>
    /\ useSubmodules = FALSE
    /\ updateResult = "none"
    /\ cloneRan = FALSE
    /\ outcome = NoOutcome
    /\ seen = NoSeen
    /\ cmds = <<>>
    /\ chromePath = <<>>
    /\ geminiApiKey = <<>>
    /\ finalContent = Absent
    /\ mcpWrites = 0
    /\ disk0 = Disk
    /\ toolsPresent = Range(prerequisites)
    /\ probeFailed = FALSE
    /\ cloneFailedAt = 0
    /\ gitignoreResult = "none"

NextOrder == addSubmodulesProbe \/ addSubmodulesIter \/ addSubmodulesReturn

SpecOrder == InitOrder /\ [][NextOrder]_vars

(***************************************************************************)
(* Properties                                                              *)
(***************************************************************************)
Good == {"AlreadyRegistered", "PresentButUnregistered", "Registered"}
AttemptFailed == {"RegisteredViaFallbackClone", "Failed"}
LoopCompleted == \A k \in RepoIdx : outcome[k] # "none"
AllTargets == \A k \in RepoIdx : pathExists(cloneTarget(REPOS[k]), fs)
Issued(name) == {i \in 1..Len(cmds) : cmds[i][1] = name}
InvalidJsonError == "Failed to generate valid JSON for mcp.json"

\* C1: when the text left after placeholder substitution does not parse as
\* JSON, generateMcpJson raises the validation error and .roo/mcp.json stays
\* exactly as it was before the call (absent or a previous run's content).
C1_NoWriteOnParseFailure ==
    [][(pc = "generateMcpJson" /\ finalContent' # Absent /\ ~jsonParses(finalContent'))
         => /\ mcpJson' = mcpJson
            /\ mcpWrites' = mcpWrites
            /\ pc' = "exit"
            /\ exitCode' = 1
            /\ error' = InvalidJsonError]_vars

\* C1 witness: a well-formed template rendered to unparseable text (a quote in
\* the key) over a configuration file of an earlier run, which is still there
C1_Witness ==
    /\ error = InvalidJsonError
    /\ templateFile = TemplateOk
    /\ finalContent # Absent
    /\ ~jsonParses(finalContent)
    /\ mcpJson = OldConfig

\* C2 as stated: whenever addSubmodules has returned, the result is true iff
\* every descriptor's outcome is one of the three good ones, and false iff some
\* descriptor's registration attempt failed.
C2_AsStated ==
    addReturn # <<>> =>
        /\ (addReturn = <<TRUE>> <=> \A k \in RepoIdx : outcome[k] \in Good)
        /\ (addReturn = <<FALSE>> <=> \E k \in RepoIdx : outcome[k] \in AttemptFailed)

\* C2: when the introspection step succeeded, addSubmodules returns after every
\* descriptor got an outcome, true iff all outcomes are good, false iff some
\* registration attempt failed; when the introspection step failed it returns
\* false and no descriptor has an outcome.
C2_ReturnValue ==
    addReturn # <<>> =>
        IF probeFailed
        THEN addReturn = <<FALSE>> /\ outcome = NoOutcome
        ELSE /\ LoopCompleted
             /\ (addReturn = <<TRUE>> <=> \A k \in RepoIdx : outcome[k] \in Good)
             /\ (addReturn = <<FALSE>> <=> \E k \in RepoIdx : outcome[k] \in AttemptFailed)

\* C2 witness: the loop returned false after one descriptor was registered and
\* another was only obtained by the fallback clone
C2_Witness ==
    /\ addReturn = <<FALSE>>
    /\ ~probeFailed
    /\ \E j, k \in RepoIdx :
         outcome[j] = "Registered" /\ outcome[k] = "RegisteredViaFallbackClone"

AfterAcquisition ==
    {"setupSubmodules", "installPlaywrightChromium", "getGeminiApiKey", "generateMcpJson"}

\* C3: once main is past the acquisition phase every descriptor's target path
\* exists, and a run that ended with a target path missing ended in failure.
C3_TargetsPopulated ==
    variant = "full" =>
        /\ (pc \in AfterAcquisition => AllTargets)
        /\ ((pc = "exit" /\ ~AllTargets) => exitCode = 1)

\* C3 witness: the submodule path left a descriptor without its directory and
\* the clone loop that followed supplied it
C3_Witness ==
    /\ pc = "setupSubmodules"
    /\ addReturn = <<FALSE>>
    /\ cloneRan
    /\ \E k \in RepoIdx : outcome[k] = "Failed"
    /\ AllTargets

\* C4 as stated: a descriptor whose target path existed at decision time is
\* AlreadyRegistered when the manifest lists exactly its path and
\* PresentButUnregistered when it does not; no command is issued for it and
\* the aggregate flag is not changed by it.
C4_AsStated ==
    \A k \in RepoIdx :
        (outcome[k] # "none" /\ seen[k].exists) =>
            /\ (seen[k].listed => outcome[k] = "AlreadyRegistered")
            /\ (~seen[k].listed => outcome[k] = "PresentButUnregistered")
            /\ \A i \in 1..Len(cmds) :
                 cmds[i][1] \in {"git submodule add", "git clone"} => cmds[i][2] # k

\* C5: when the loop of addSubmodules has completed, a descriptor whose
\* registration attempt failed has its target path populated iff its fallback
\* clone succeeded.
C5_FallbackPopulates ==
    (pc = "afterAddSubmodules" /\ LoopCompleted) =>
        \A k \in RepoIdx :
            outcome[k] \in AttemptFailed =>
                (pathExists(submoduleTarget(REPOS[k]), fs)
                   <=> outcome[k] = "RegisteredViaFallbackClone")

\* C5 witness: the loop completed with one fallback clone that succeeded and
\* one that failed
C5_Witness ==
    /\ pc = "afterAddSubmodules"
    /\ \E j, k \in RepoIdx :
         /\ outcome[j] = "RegisteredViaFallbackClone"
         /\ outcome[k] = "Failed"
         /\ pathExists(submoduleTarget(REPOS[j]), fs)
         /\ ~pathExists(submoduleTarget(REPOS[k]), fs)

\* C6: the clone loop issues git clone for a descriptor only when its target
\* directory is missing, and a clone loop that runs after one that completed
\* issues no command and leaves the disk as it found it.
C6_CloneIdempotent ==
    [][/\ (pc = "cloneLoop" /\ cmds' # cmds)
            => ~pathExists(cloneTarget(REPOS[idx]), fs)
       /\ (cloneCompletions >= 1 /\ pc \in {"cloneRepositories", "cloneLoop"})
            => (Disk' = Disk /\ cmds' = cmds)]_vars

\* C6 witness: the clone loop completed in two runs on the same directory,
\* the second time without a single git clone
C6_Witness ==
    /\ cloneCompletions = 2
    /\ run = 2
    /\ Issued("git clone") = {}

\* C7: once addSubmodules returned false or the update step failed, the clone
\* loop is about to run or has run; when addSubmodules returned true and the
\* update step succeeded the clone loop does not run.
C7_FallbackToClone ==
    /\ (addReturn = <<FALSE>> \/ updateResult = "failed")
          => (pc \in {"afterAddSubmodules", "cloneRepositories"} \/ cloneRan)
    /\ (addReturn = <<TRUE>> /\ updateResult = "ok")
          => (~cloneRan /\ pc \notin {"cloneRepositories", "cloneLoop"})

\* C7 witness: addSubmodules returned true, the update step failed and the
\* clone loop ran to its end
C7_Witness ==
    /\ addReturn = <<TRUE>>
    /\ updateResult = "failed"
    /\ cloneRan
    /\ pc = "setupSubmodules"

PastSelection == pc \notin {"checkPrerequisites", "setupDirectories", "selectStrategy"}

\* C8 as stated: when git sees no work tree in the working directory,
\* addSubmodules is never called (its probe is never issued), no git submodule
\* add is attempted, no manifest is created and main goes to the clone loop.
C8_AsStated ==
    (variant = "full" /\ ~workTree) =>
        /\ Issued("git rev-parse") = {}
        /\ addReturn = <<>>
        /\ Issued("git submodule add") = {}
        /\ gitmodules = disk0[2]
        /\ (PastSelection /\ pc # "exit") => (pc = "cloneRepositories" \/ cloneRan)

\* C8: with no .git entry in the working directory addSubmodules is never
\* called and main goes straight to the clone loop; with a .git entry but no
\* work tree addSubmodules is called and returns false at its probe. In both
\* cases no git submodule add is attempted and no manifest is created.
C8_NotARepository ==
    variant = "full" =>
        /\ gitDir \notin fs =>
             /\ Issued("git rev-parse") = {}
             /\ addReturn = <<>>
             /\ Issued("git submodule add") = {}
             /\ gitmodules = disk0[2]
             /\ (PastSelection /\ pc # "exit") => (pc = "cloneRepositories" \/ cloneRan)
        /\ ~workTree =>
             /\ addReturn \in {<<>>, <<FALSE>>}
             /\ outcome = NoOutcome
             /\ Issued("git submodule add") = {}
             /\ gitmodules = disk0[2]

\* C8 witness: no .git entry and no manifest; main is in the clone loop and
\* addSubmodules was not called
C8_Witness ==
    /\ variant = "full"
    /\ ~workTree
    /\ gitDir \notin fs
    /\ pc = "cloneLoop"
    /\ gitmodules = Absent
    /\ Issued("git rev-parse") = {}

\* C9: when the introspection step of addSubmodules failed, addSubmodules
\* returned false, no descriptor was processed, and main is about to run the
\* clone loop or has run it; the failure itself never ends the run.
C9_ProbeFailureCaught ==
    probeFailed =>
        /\ addReturn = <<FALSE>>
        /\ outcome = NoOutcome
        /\ Issued("git submodule add") = {}
        /\ (pc \in {"afterAddSubmodules", "cloneRepositories"} \/ cloneRan)

\* C9 witness: inside a work tree the missing manifest could not be created;
\* the run went on through the clone loop
C9_Witness ==
    /\ probeFailed
    /\ workTree
    /\ disk0[2] = Absent
    /\ cloneRan
    /\ pc = "setupSubmodules"

\* C10: after checkPrerequisites all six tools were probed, the reported list
\* is exactly the set of tools whose probe failed, and when it is not empty
\* the process has ended with status 1, the disk untouched and no command
\* besides the six probes issued.
C10_Prerequisites ==
    pc # "checkPrerequisites" =>
        /\ Len(cmds) >= Len(prerequisites)
        /\ \A i \in 1..Len(prerequisites) : cmds[i] = <<"which", prerequisites[i]>>
        /\ Range(missing) = Range(prerequisites) \ toolsPresent
        /\ Len(missing) = Cardinality(Range(missing))
        /\ missing # <<>> =>
             /\ pc = "exit"
             /\ exitCode = 1
             /\ Disk = disk0
             /\ Len(cmds) = Len(prerequisites)

\* C10 witness: the first and the last tool are absent; both are reported and
\* the process ended with status 1
C10_Witness ==
    /\ missing = <<prerequisites[1], prerequisites[Len(prerequisites)]>>
    /\ pc = "exit"
    /\ exitCode = 1

\* C11 as stated: once the introspection step has passed, the loop of
\* addSubmodules processes the descriptors in declaration order and leaves none
\* out: when the loop is over every descriptor has an outcome, whatever the
\* outcomes of the descriptors before it.
C11_AsStated ==
    /\ \A k \in RepoIdx :
         outcome[k] # "none" => \A j \in 1..(k - 1) : outcome[j] # "none"
    /\ (pc # "addSubmodulesLoop" /\ \E k \in RepoIdx : outcome[k] # "none")
          => LoopCompleted

\* C12: a clone failure in cloneRepositories ends the run at that descriptor:
\* the failed git clone is the last command of the run, nothing was built,
\* installed, prompted for or rendered, .roo/mcp.json is as the run found it
\* and the process has exited with status 1.
C12_CloneFailureFatal ==
    cloneFailedAt # 0 =>
        /\ pc = "exit"
        /\ exitCode = 1
        /\ error = "git clone failed"
        /\ cmds[Len(cmds)] = <<"git clone", cloneFailedAt>>
        /\ Issued("install and build") = {}
        /\ Issued("npx playwright install") = {}
        /\ chromePath = <<>>
        /\ geminiApiKey = <<>>
        /\ finalContent = Absent
        /\ mcpWrites = 0
        /\ mcpJson = disk0[4]

\* C12 witness: the first descriptor was cloned, the clone of the second
\* failed and the third was never tried
C12_Witness ==
    /\ cloneFailedAt = 2
    /\ pc = "exit"
    /\ pathExists(cloneTarget(REPOS[1]), fs)
    /\ cloneTarget(REPOS[1]) \notin disk0[1]
    /\ ~pathExists(cloneTarget(REPOS[3]), fs)

\* the template with each placeholder token replaced by its value as given
VerbatimRender(template, root, chrome, key) ==
    Flatten([i \in 1..Len(template) |->
        CASE template[i] = PH_PWD -> escapeBackslashes(root)
          [] template[i] = PH_CHROME -> escapeBackslashes(chrome)
          [] template[i] \in {PH_BROWSER_KEY, PH_CODEBASE_KEY} -> key
          [] OTHER -> <<template[i]>>])

\* C13 as stated: for an executable path that was detected, the text
\* generateMcpJson produces is the template with __PWD__ and __CHROME_PATH__
\* replaced by the project root and the executable path with every backslash
\* doubled, and both key placeholders replaced by the secret character for
\* character.
C13_AsStated ==
    (finalContent # Absent /\ chromePath # <<CHROME_PATH_DETECTION_FAILED>>) =>
        finalContent = VerbatimRender(templateFile, projectDir, chromePath, geminiApiKey)

\* C14 as stated: when detection failed, the value that takes the place of
\* __CHROME_PATH__ between the quotes of the template is exactly the sentinel.
C14_AsStated ==
    (/\ finalContent # Absent
     /\ chromePath = <<CHROME_PATH_DETECTION_FAILED>>
     /\ Includes(templateFile, <<QUOTE, PH_CHROME, QUOTE>>)) =>
        Includes(finalContent, <<QUOTE, CHROME_PATH_DETECTION_FAILED, QUOTE>>)

\* C15: a run ends with status 0 or 1, and with 1 exactly when a prerequisite
\* is missing or an error reached the catch of main; a step in which a
\* recoverable failure happens (a probe failure, a registration recovered by
\* the fallback clone, a failed submodule update, a failed .gitignore update)
\* never ends the run.
C15_ExitStatus ==
    /\ [](pc = "exit" =>
            /\ exitCode \in {0, 1}
            /\ (exitCode = 1 <=> (missing # <<>> \/ error # NoError)))
    /\ [][(\/ probeFailed' /\ ~probeFailed
           \/ \E k \in RepoIdx :
                outcome'[k] = "RegisteredViaFallbackClone" /\ outcome[k] = "none"
           \/ updateResult' = "failed" /\ updateResult # "failed"
           \/ gitignoreResult' = "failed" /\ gitignoreResult # "failed")
             => pc' # "exit"]_vars

\* C15 witness: a run that ended with status 0 although a registration failed
\* and was recovered by the fallback clone
C15_Witness ==
    /\ pc = "exit"
    /\ exitCode = 0
    /\ error = NoError
    /\ \E k \in RepoIdx : outcome[k] = "RegisteredViaFallbackClone"
    /\ cloneRan

\* C16: a call of updateGitignore that follows a call that completed (on a
\* file that listed no entry twice) does not write the file, and the file
\* lists each fixed entry on exactly one line.
C16_GitignoreIdempotent ==
    [][(pc = "updateGitignore" /\ gitignoreResult \in {"written", "unchanged"})
         => /\ gitignoreResult' \in {"unchanged", "failed"}
            /\ gitignore' = gitignore
            /\ \A i \in 1..Len(entriesToAdd(variant)) :
                 CountLines(gitignore', entriesToAdd(variant)[i]) = 1]_vars

\* C16 witness: the first call completed a file that already listed an entry
\* between blanks, the second call found nothing to add
C16_Witness ==
    /\ run = 2
    /\ pc = "setupSubmodules"
    /\ gitignoreResult = "unchanged"
    /\ disk0[3] # Absent
    /\ Includes(disk0[3], <<" ", ".browsers/">>)
    /\ gitignore # disk0[3]

\* C17: when generateMcpJson succeeds, .roo/mcp.json holds exactly the
\* substituted text, blanks and line breaks included, whatever it held before;
\* the call writes that one file and creates nothing else but the .roo
\* directory.
C17_WritesSubstitutedText ==
    [][(pc = "generateMcpJson" /\ (pc' = "nextSteps" \/ (pc' = "exit" /\ exitCode' = 0)))
         => /\ mcpJson' = substitute(templateFile, projectDir, chromePath,
                                     geminiApiKey, platform)
            /\ mcpJson' = finalContent'
            /\ mcpWrites' = mcpWrites + 1
            /\ fs' = ensureDir(rooDir, fs)
            /\ UNCHANGED << gitmodules, gitignore >>]_vars

\* C17 witness: a template laid out with blanks was rendered over the
\* configuration file of an earlier run, and the file holds it blank for blank
C17_Witness ==
    /\ pc = "exit"
    /\ exitCode = 0
    /\ templateFile = TemplateSpaced
    /\ disk0[4] = OldConfig
    /\ mcpJson = finalContent
    /\ Includes(mcpJson, <<"{", " ", QUOTE>>)
    /\ mcpJson # OldConfig

\* C18: a call of updateGitignore in which reading or writing the file fails
\* returns normally: main goes on to its next step with the exit status, the
\* error and its submodule flag untouched, and the clone loop does not run
\* because of it.
C18_GitignoreFailureSwallowed ==
    /\ [](gitignoreResult = "failed" =>
            /\ useSubmodules = TRUE
            /\ ~cloneRan
            /\ pc \notin {"cloneRepositories", "cloneLoop"})
    /\ [][(pc = "updateGitignore" /\ gitignoreResult' = "failed")
            => /\ pc' = "setupSubmodules"
               /\ UNCHANGED << exitCode, error, useSubmodules, cloneRan >>]_vars

\* C18 witness: the update of an existing .gitignore failed, the file is as
\* it was and the run ended with status 0
C18_Witness ==
    /\ gitignoreResult = "failed"
    /\ disk0[3] # Absent
    /\ gitignore = disk0[3]
    /\ pc = "exit"
    /\ exitCode = 0
    /\ ~cloneRan

\* C19: in every run, whatever ended the run before it, git submodule add and
\* git clone are issued only for descriptors whose target path was missing
\* when the run started, and no step removes a directory or a file from disk.
C19_RerunSkipsPopulated ==
    /\ [](\A i \in 1..Len(cmds) :
            cmds[i][1] \in {"git submodule add", "git clone"}
               => ~pathExists(submoduleTarget(REPOS[cmds[i][2]]), disk0[1]))
    /\ [][/\ fs \subseteq fs'
          /\ gitmodules # Absent => gitmodules' # Absent
          /\ gitignore # Absent => gitignore' # Absent
          /\ mcpJson # Absent => mcpJson' # Absent]_vars

\* C19 witness: the first run was aborted by the failed clone of the third
\* descriptor; the second run skipped the two directories it found and cloned
\* only the third
C19_Witness ==
    /\ run = 2
    /\ pc = "exit"
    /\ exitCode = 0
    /\ pathExists(cloneTarget(REPOS[1]), disk0[1])
    /\ pathExists(cloneTarget(REPOS[2]), disk0[1])
    /\ ~pathExists(cloneTarget(REPOS[3]), disk0[1])
    /\ Issued("git clone") # {}
    /\ \A i \in Issued("git clone") : cmds[i][2] = 3

\* the manifest the run started with (created empty when missing), followed
\* by the entries of the descriptors registered before descriptor k
ManifestBefore(k) ==
    (IF disk0[2] = Absent THEN <<>> ELSE disk0[2])
       \o Flatten([j \in 1..(k - 1) |->
                     IF outcome[j] = "Registered" THEN ManifestEntry(REPOS[j].path)
                     ELSE <<>>])

\* C20: the manifest content a descriptor is classified with is the content
\* of the file after the registrations of the descriptors before it in the
\* same loop.
C20_ManifestReadFresh ==
    \A k \in RepoIdx :
        outcome[k] # "none" =>
            /\ seen[k].manifest = ManifestBefore(k)
            /\ seen[k].isSubmodule = isSubmodule(ManifestBefore(k), REPOS[k].path)

\* C20 witness: the first descriptor was registered and the second was
\* classified with a manifest that holds the first one's entry
C20_Witness ==
    /\ outcome[1] = "Registered"
    /\ outcome[2] # "none"
    /\ seen[2].manifest # seen[1].manifest
    /\ Includes(seen[2].manifest, ManifestEntry(REPOS[1].path))

\* C21: the program itself never writes an entry into the manifest: the only
\* direct write is the creation of an empty .gitmodules when none exists, and
\* every other change of the file is a successful 'git submodule add' that
\* appends to the content already there. An existing manifest is never
\* truncated or rewritten.
C21_ManifestOnlyCreated ==
    [][gitmodules' # gitmodules =>
         \/ /\ pc = "addSubmodules"
            /\ gitmodules = Absent
            /\ gitmodules' = <<>>
         \/ /\ pc = "addSubmodulesLoop"
            /\ gitmodules # Absent
            /\ cmds' = cmds \o << <<"git submodule add", order[idx]>> >>
            /\ outcome'[order[idx]] = "Registered"
            /\ Len(gitmodules') > Len(gitmodules)
            /\ SubSeq(gitmodules', 1, Len(gitmodules)) = gitmodules]_vars

\* C21 witness: a run that started without a manifest created it empty, and a
\* run that started with entries still has them after the probe and the loop
C21_Witness ==
    /\ pc = "afterAddSubmodules"
    /\ ~probeFailed
    /\ disk0[2] # Absent
    /\ disk0[2] # <<>>
    /\ gitmodules = disk0[2]

\* C21 witness of the creation: the manifest was missing and is now empty
C21_Created ==
    /\ disk0[2] = Absent
    /\ gitmodules = <<>>

\* the commands a step issues
NewCmds == SubSeq(cmds', Len(cmds) + 1, Len(cmds'))

\* C22: within one iteration of the addSubmodules loop a registration is
\* attempted exactly when the target path does not exist at decision time,
\* whether or not the manifest lists it; the fallback clone runs at most once
\* and only after the registration of the same descriptor failed in that
\* iteration; a successful registration is never followed by a clone.
C22_RegistrationThenFallback ==
    [][(pc = "addSubmodulesLoop" /\ idx <= Len(REPOS)) =>
         LET k      == order[idx]
             exists == pathExists(submoduleTarget(REPOS[k]), fs)
             adds   == {i \in 1..Len(NewCmds) : NewCmds[i] = <<"git submodule add", k>>}
             clones == {i \in 1..Len(NewCmds) : NewCmds[i][1] = "git clone"}
         IN  /\ (adds # {}) <=> ~exists
             /\ adds \subseteq {1}
             /\ clones \subseteq {2}
             /\ Len(NewCmds) <= 2
             /\ clones # {} =>
                   /\ NewCmds[2] = <<"git clone", k>>
                   /\ adds = {1}
                   /\ outcome'[k] \in AttemptFailed
                   /\ allSuccessful' = FALSE
             /\ outcome'[k] = "Registered" => NewCmds = << <<"git submodule add", k>> >>
             /\ outcome'[k] # "none"]_vars

\* C22 witness: a descriptor the manifest lists, whose target was missing, was
\* registered again, the registration failed and the fallback clone populated it
C22_Witness ==
    /\ seen[1].listed
    /\ ~seen[1].exists
    /\ outcome[1] = "RegisteredViaFallbackClone"
    /\ cmds[Len(cmds)] = <<"git clone", 1>>
    /\ cmds[Len(cmds) - 1] = <<"git submodule add", 1>>

\* the outcome the loop gives descriptor k when k is the first of the list
FirstOutcome(k) ==
    LET content == touchManifest(disk0[2])
        exists  == pathExists(submoduleTarget(REPOS[k]), disk0[1])
        isSub   == isSubmodule(content, REPOS[k].path)
        r       == CHOOSE x \in oracle[k] : TRUE
    IN  IF skipsRegistration(exists, isSub)
        THEN IF isSub THEN "AlreadyRegistered" ELSE "PresentButUnregistered"
        ELSE IF r[1] THEN "Registered"
        ELSE IF r[2] /\ r[3] THEN "RegisteredViaFallbackClone"
        ELSE "Failed"

\* addSubmodules is over: it returned from the loop or an exception left it
LoopOver ==
    \/ pc = "afterAddSubmodules" /\ ~probeFailed
    \/ pc = "exit"

\* C23: the Submodule Acquisition Loop is order-independent: whatever the
\* order of the descriptor list, with the same per-descriptor results of the
\* external operations every descriptor gets the outcome it gets when it is
\* the first of the list, and the loop returns the same aggregate flag, true
\* exactly when no registration attempt failed.
C23_AsStated ==
    LoopOver =>
        /\ \A k \in RepoIdx : outcome[k] = FirstOutcome(k)
        /\ addReturn = << \A k \in RepoIdx : FirstOutcome(k) \in Good >>

\* the browser install command ran in this run and succeeded
InstallSucceeded ==
    /\ Issued("npx playwright install") # {}
    /\ error # "playwright install failed"

\* C24: a failure to detect the browser executable path never aborts the
\* run: whenever the install command succeeded, installPlaywrightChromium
\* returns a value, the path or, when the executable cannot be located, the
\* sentinel, and the run goes on to the prompt and the rendering.
C24_AsStated ==
    InstallSucceeded =>
        /\ chromePath # <<>>
        /\ pc \in {"getGeminiApiKey", "generateMcpJson", "nextSteps", "exit"}
        /\ error \notin {"Could not find Chromium directory within .browsers",
                         "Unsupported platform"}

\* the run was aborted by generateMcpJson
FailedInRender ==
    /\ pc = "exit"
    /\ exitCode = 1
    /\ geminiApiKey # <<>>
    /\ mcpWrites = 0

\* the messages of the errors generateMcpJson raises in guards of its own
\* (cli.ts:557, 586, 603) and the file-system error of fs.ensureDir
ReadError == "Failed to read template file"
EnsureDirError == "ensureDir .roo failed"
GuardErrors == {ReadError, InvalidJsonError, "Failed to write configuration file"}

\* C25 as stated: each of the four steps of generateMcpJson is guarded on its
\* own, so that whichever step fails, the error that reaches the caller is
\* one raised by that step's guard, with that step's message.
C25_AsStated ==
    FailedInRender => error \in GuardErrors

\* C25: the template read, the validation and the write of generateMcpJson
\* are each guarded on their own: a failure raises an error whose message is
\* specific to that step and different from the others, and that error
\* reaches the caller. The ensure-directory step has no guard of its own: its
\* failure reaches the caller as the file-system error, unchanged.
C25_StepErrors ==
    FailedInRender =>
        /\ error \in GuardErrors \cup {EnsureDirError}
        /\ Cardinality(GuardErrors \cup {EnsureDirError}) = 4
        /\ error = ReadError => (templateFile = Absent /\ finalContent = Absent)
        /\ error = EnsureDirError => finalContent = Absent
        /\ (error = InvalidJsonError) <=>
               (finalContent # Absent /\ ~jsonParses(finalContent))
        /\ (error = "Failed to write configuration file") <=>
               (finalContent # Absent /\ jsonParses(finalContent))
        /\ mcpJson = disk0[4]

\* C25 witness: the text was valid and the write of it failed
C25_Witness ==
    /\ FailedInRender
    /\ error = "Failed to write configuration file"
    /\ jsonParses(finalContent)

\* the four entries of the claim, and gitignore read as text
FourEntries == {".browsers/", ".browser-use/", ".codebase/", ".roo/mcp.json"}
GitignoreText(content) == IF content = Absent THEN <<>> ELSE content

\* C26 as stated: every run that completes successfully leaves .gitignore
\* containing, each on a line of its own, the four fixed entries, whichever
\* acquisition path the run took.
C26_AsStated ==
    (pc = "exit" /\ exitCode = 0) =>
        \A e \in FourEntries : hasEntry(GitignoreText(gitignore), e)

\* C26: updateGitignore is called only on the submodule path, after
\* addSubmodules returned true and 'git submodule update' succeeded; when the
\* call succeeds .gitignore contains, each on a line of its own, the three
\* entries .browsers/, .codebase/ and .roo/mcp.json, the missing ones appended
\* to the content that was there; on every other path, and when the call
\* fails, .gitignore is as the run found it.
C26_GitignoreEntries ==
    /\ gitignoreResult # "none" =>
          /\ variant = "full"
          /\ addReturn = <<TRUE>>
          /\ updateResult = "ok"
          /\ cloneFailedAt = 0
    /\ gitignoreResult \in {"written", "unchanged"} =>
          /\ \A e \in {".browsers/", ".codebase/", ".roo/mcp.json"} :
                CountLines(gitignore, e) >= 1
          /\ SubSeq(gitignore, 1, Len(GitignoreText(disk0[3]))) = GitignoreText(disk0[3])
          /\ (gitignoreResult = "unchanged") <=> (gitignore = disk0[3])
    /\ gitignoreResult \in {"none", "failed"} => gitignore = disk0[3]

\* C26 witness: a successful run on the submodule path appended the entries
\* that were missing to a .gitignore that had one of them
C26_Witness ==
    /\ pc = "exit"
    /\ exitCode = 0
    /\ gitignoreResult = "written"
    /\ disk0[3] # Absent
    /\ gitignore # disk0[3]
    /\ ~hasEntry(gitignore, ".browser-use/")

\* the 'git clone' commands issued for descriptor k in this run
ClonesOf(k) == {i \in Issued("git clone") : cmds[i][2] = k}
AddsOf(k) == {i \in Issued("git submodule add") : cmds[i][2] = k}

\* a step taken inside a descriptor loop moves on to a later descriptor or
\* leaves the loop
LoopAdvances ==
    (pc \in {"addSubmodulesLoop", "cloneLoop"}) => ((idx' > idx) \/ (pc' # pc))

\* C27: provided every external call eventually returns, every run of main
\* terminates, with exit status 0 or 1: each loop visits each descriptor at
\* most once, there is no retry loop, and 'git clone' is attempted at most
\* twice per descriptor per run (once as the fallback of a registration,
\* once by the clone loop) and 'git submodule add' at most once.
C27_Terminates ==
    /\ <>(pc = "exit")
    /\ [](pc = "exit" => exitCode \in {0, 1})
    /\ [](\A k \in RepoIdx :
             /\ Cardinality(ClonesOf(k)) <= 2
             /\ Cardinality(AddsOf(k)) <= 1
             /\ Cardinality(ClonesOf(k)) = 2 => (AddsOf(k) # {} /\ cloneRan))
    /\ [][LoopAdvances]_vars

\* C27 witness: a run that ended after 'git clone' was attempted twice for the
\* same descriptor, by the fallback and by the clone loop
C27_Witness ==
    /\ pc = "exit"
    /\ \E k \in RepoIdx : Cardinality(ClonesOf(k)) = 2

\* a step of the clone loop that skips the descriptor it is at
CloneLoopSkips ==
    /\ cmds' = cmds
    /\ fs' = fs
    /\ idx' = idx + 1
    /\ pc' = pc

\* a step of the clone loop that clones the descriptor it is at
CloneLoopClones ==
    /\ cmds' = cmds \o << <<"git clone", idx>> >>
    /\ idx' = idx + 1
    /\ pc' = pc

\* C28: for every descriptor the path the submodule loop and its fallback
\* clone use (projectDir + repo.path) is the path the Direct Clone Loop uses
\* (submodulesDir + repo.name); hence a clone loop that runs after a
\* submodule attempt skips every descriptor that is already populated, and
\* no descriptor is successfully cloned or registered more than once in a run.
C28_SameTarget ==
    /\ [](\A k \in RepoIdx : submoduleTarget(REPOS[k]) = cloneTarget(REPOS[k]))
    /\ [][(pc = "cloneLoop" /\ ~loopDone(idx)) =>
            /\ pathExists(submoduleTarget(REPOS[idx]), fs) => CloneLoopSkips
            /\ outcome[idx] \in {"AlreadyRegistered", "PresentButUnregistered",
                                 "Registered", "RegisteredViaFallbackClone"}
                  => CloneLoopSkips
            /\ CloneLoopClones =>
                  /\ ~pathExists(submoduleTarget(REPOS[idx]), fs)
                  /\ pathExists(submoduleTarget(REPOS[idx]), fs')
                  /\ outcome[idx] \in {"none", "Failed"}]_vars
    /\ [][(pc = "addSubmodulesLoop" /\ ~loopDone(idx)) =>
            (outcome'[order[idx]] \in {"Registered", "RegisteredViaFallbackClone"} =>
               /\ ~pathExists(cloneTarget(REPOS[order[idx]]), fs)
               /\ pathExists(cloneTarget(REPOS[order[idx]]), fs')
               /\ outcome[order[idx]] = "none")]_vars

\* C28 witness: the first descriptor was registered, the second failed, and
\* the clone loop that followed went past the first without cloning it
C28_Witness ==
    /\ outcome[1] = "Registered"
    /\ outcome[2] = "Failed"
    /\ pc = "cloneLoop"
    /\ idx = 2
    /\ ClonesOf(1) = {}

\* addSubmodules returned true and 'git submodule update' failed
UpdateFailedAfterTrue ==
    /\ addReturn = <<TRUE>>
    /\ updateResult = "failed"

\* C29: when addSubmodules returned true and the update step fails, the
\* fallback Direct Clone Loop runs, finds every target present and issues no
\* 'git clone', and updateGitignore is not called in that run.
C29_UpdateFailure ==
    /\ [](UpdateFailedAfterTrue =>
            /\ AllTargets
            /\ Issued("git clone") = {}
            /\ cloneFailedAt = 0
            /\ gitignoreResult = "none"
            /\ gitignore = disk0[3]
            /\ pc # "updateGitignore"
            /\ ~useSubmodules
            /\ pc \in {"cloneRepositories", "cloneLoop"} \/ cloneRan)
    /\ [][(UpdateFailedAfterTrue /\ pc = "cloneLoop" /\ ~loopDone(idx)) =>
             (CloneLoopSkips /\ pathExists(cloneTarget(REPOS[idx]), fs))]_vars

\* C29 witness: every descriptor was registered, the update failed, and the
\* clone loop went through the three descriptors
C29_Witness ==
    /\ UpdateFailedAfterTrue
    /\ \A k \in RepoIdx : outcome[k] = "Registered"
    /\ cloneRan
    /\ pc = "setupSubmodules"
    /\ cmds[Len(cmds)] = <<"git submodule update", 0>>

\* positions of the commands of each step of main in the order they were issued
Before(as, bs) == \A i \in as, j \in bs : i < j
AcquisitionCmds ==
    UNION {Issued(n) : n \in {"git rev-parse", "git submodule add", "git clone",
                              "git submodule update"}}

\* every step of main before generateMcpJson completed, in the order of main
StepsCompleted ==
    /\ missing = <<>>
    /\ toolsPresent = Range(prerequisites)
    /\ Cardinality(Issued("which")) = Len(prerequisites)
    /\ pathExists(rooDir, fs)
    /\ variant = "full" =>
          /\ AllTargets
          /\ cloneFailedAt = 0
          /\ useSubmodules \/ cloneRan
          /\ Cardinality(Issued("install and build")) = 1
          /\ Before(Issued("which"), AcquisitionCmds)
          /\ Before(AcquisitionCmds, Issued("install and build"))
          /\ Before(Issued("install and build"), Issued("npx playwright install"))
    /\ Cardinality(Issued("npx playwright install")) = 1
    /\ Before(Issued("which"), Issued("npx playwright install"))
    /\ chromePath # <<>>
    /\ geminiApiKey # <<>>
    /\ validate(geminiApiKey) = "true"

\* C30: in every run .roo/mcp.json is written at most once, and only after
\* the prerequisite check, the directory setup, the acquisition, the
\* install/build step, the browser install and the secret prompt completed
\* successfully, in this order; a run that aborts at any earlier step leaves
\* .roo/mcp.json untouched.
C30_WrittenLast ==
    /\ [](/\ mcpWrites <= 1
          /\ mcpWrites = 1 => StepsCompleted
          /\ mcpWrites = 0 => mcpJson = disk0[4])
    /\ [][(mcpJson' # mcpJson \/ mcpWrites' # mcpWrites) =>
             /\ pc = "generateMcpJson"
             /\ StepsCompleted
             /\ mcpWrites = 0
             /\ mcpWrites' = 1
             /\ cmds' = cmds]_vars

\* C30 witness: a run on the submodule path wrote the file over an earlier one
C30_Witness ==
    /\ variant = "full"
    /\ mcpWrites = 1
    /\ disk0[4] # Absent
    /\ mcpJson # disk0[4]
    /\ useSubmodules
    /\ pc = "exit"

\* C30 witness of an aborted run: the browser install failed and the earlier
\* configuration file is as it was
C30_Aborted ==
    /\ pc = "exit"
    /\ exitCode = 1
    /\ Issued("npx playwright install") # {}
    /\ mcpWrites = 0
    /\ disk0[4] # Absent
    /\ mcpJson = disk0[4]

\* the error of a failed chrome-extension-path lookup
LookupError == "chrome-extension-path failed"

\* C31: in the package-based variant the chrome-extension-path lookup runs
\* after the configuration has been rendered and inside the same top-level
\* try: when the lookup fails the process exits with status 1 although
\* .roo/mcp.json has been written, and a package run that ends with status 0
\* has made the lookup. In the full variant nothing that can fail runs after
\* rendering: a written configuration in a run implies exit status 0.
C31_LookupAfterRender ==
    /\ Issued("npx chrome-extension-path") # {} =>
          /\ variant = "package"
          /\ mcpWrites = 1
          /\ mcpJson = finalContent
          /\ jsonParses(mcpJson)
          /\ pc = "exit"
    /\ (pc = "exit" /\ variant = "package" /\ mcpWrites = 1) =>
          /\ Issued("npx chrome-extension-path") # {}
          /\ (exitCode = 1) <=> (error = LookupError)
          /\ (exitCode = 0) <=> (error = NoError)
    /\ error = LookupError => (pc = "exit" /\ variant = "package" /\ mcpWrites = 1)
    /\ (variant = "full" /\ mcpWrites = 1) =>
          /\ pc = "exit"
          /\ exitCode = 0
          /\ error = NoError
          /\ cmds[Len(cmds)][1] = "npx playwright install"

\* C31 witness: a package run wrote the configuration over an earlier one and
\* ended with status 1 because the lookup failed
C31_Witness ==
    /\ variant = "package"
    /\ pc = "exit"
    /\ exitCode = 1
    /\ error = LookupError
    /\ mcpWrites = 1
    /\ disk0[4] # Absent
    /\ mcpJson # disk0[4]

\* what updateGitignore has to append to old: a newline when old does not end
\* with one, then every entry that no line of old equals after trimming, each
\* followed by a newline, in the order of the list
MissingSuffix(old, entries) ==
    (IF Len(old) > 0 /\ old[Len(old)] # NL THEN <<NL>> ELSE <<>>)
       \o Flatten([i \in 1..Len(entries) |->
                     IF CountLines(old, entries[i]) = 0 THEN <<entries[i], NL>>
                     ELSE <<>>])

NoneMissing(old, entries) ==
    \A i \in 1..Len(entries) : CountLines(old, entries[i]) >= 1

\* C32: updateGitignore only appends: when it writes, the new content of
\* .gitignore has the previous content as a prefix and each added entry is on
\* a line of its own (a newline is inserted first when the previous content
\* does not end with one); an entry counts as present when some line equals
\* it after trimming whitespace; when no entry is missing the file is not
\* written at all.
C32_OnlyAppends ==
    [][pc = "updateGitignore" =>
         LET old     == GitignoreText(gitignore)
             entries == entriesToAdd(variant)
         IN  /\ gitignoreResult' = "written" =>
                   /\ ~NoneMissing(old, entries)
                   /\ gitignore' = old \o MissingSuffix(old, entries)
                   /\ \A i \in 1..Len(entries) : CountLines(gitignore', entries[i]) = 1
             /\ gitignoreResult' # "written" => gitignore' = gitignore
             /\ NoneMissing(old, entries) =>
                   /\ gitignoreResult' \in {"unchanged", "failed"}
                   /\ gitignore' = gitignore
             /\ gitignoreResult' = "unchanged" => NoneMissing(old, entries)]_vars

\* C32 witness: the file did not end with a newline and listed one entry with
\* blanks around it; the call started a new line and appended the others
C32_Witness ==
    /\ run = 1
    /\ gitignoreResult = "written"
    /\ disk0[3] # Absent
    /\ Len(disk0[3]) > 0
    /\ disk0[3][Len(disk0[3])] = " "
    /\ \E e \in Range(entriesToAdd(variant)) :
          CountLines(disk0[3], e) = 1 /\ ~hasEntryUntrimmed(disk0[3], e)
    /\ gitignore[Len(disk0[3]) + 1] = NL
    /\ SubSeq(gitignore, 1, Len(disk0[3])) = disk0[3]

====
